---- MODULE Spec2Model ----
(***************************************************************************)
(* Model of liblights/lights.c, the TI OMAP3 lights HAL module.            *)
(*                                                                         *)
(* Caller threads of the host runtime open a light device by name, apply   *)
(* light states to it through the handle's set_light function pointer and  *)
(* close it.  Every set_light implementation funnels through write_int,    *)
(* which opens a sysfs control file, writes a decimal integer and closes   *)
(* the descriptor.  The module's shared state is the pthread_once guard    *)
(* g_init, the mutex g_lock, write_int's static already_warned flag and    *)
(* the twelve control files.                                               *)
(***************************************************************************)
EXTENDS Integers, Sequences, FiniteSets, TLC

(***************************************************************************)
(* Bounds of the model.                                                    *)
(***************************************************************************)
\* number of caller threads of the concurrent specification
NumThreads == 2
\* number of failing open()/write() system calls in one behaviour
MaxFaults == 1
\* number of set_light calls in one behaviour
MaxCalls == 2

Threads == 1..NumThreads

(***************************************************************************)
(* Program constants.                                                      *)
(***************************************************************************)
LCD_FILE             == "/sys/class/leds/lcd-backlight/brightness"
KEYBOARD_FILE        == "/sys/class/leds/keyboard-backlight/brightness"
CHARGING_LED_FILE    == "/sys/class/leds/battery-led/brightness"
RED_LED_FILE         == "/sys/class/leds/red/brightness"
RED_DELAY_ON_FILE    == "/sys/class/leds/red/delay_on"
RED_DELAY_OFF_FILE   == "/sys/class/leds/red/delay_off"
GREEN_LED_FILE       == "/sys/class/leds/green/brightness"
GREEN_DELAY_ON_FILE  == "/sys/class/leds/green/delay_on"
GREEN_DELAY_OFF_FILE == "/sys/class/leds/green/delay_off"
BLUE_LED_FILE        == "/sys/class/leds/blue/brightness"
BLUE_DELAY_ON_FILE   == "/sys/class/leds/blue/delay_on"
BLUE_DELAY_OFF_FILE  == "/sys/class/leds/blue/delay_off"

RGB_FILES ==
    { RED_LED_FILE, RED_DELAY_ON_FILE, RED_DELAY_OFF_FILE,
      GREEN_LED_FILE, GREEN_DELAY_ON_FILE, GREEN_DELAY_OFF_FILE,
      BLUE_LED_FILE, BLUE_DELAY_ON_FILE, BLUE_DELAY_OFF_FILE }

Paths == { LCD_FILE, KEYBOARD_FILE, CHARGING_LED_FILE } \cup RGB_FILES

\* the light identifiers open_lights compares the name with
LIGHT_ID_BACKLIGHT     == "backlight"
LIGHT_ID_KEYBOARD      == "keyboard"
LIGHT_ID_BUTTONS       == "buttons"
LIGHT_ID_BATTERY       == "battery"
LIGHT_ID_NOTIFICATIONS == "notifications"
LIGHT_ID_ATTENTION     == "attention"

KnownIds ==
    { LIGHT_ID_BACKLIGHT, LIGHT_ID_KEYBOARD, LIGHT_ID_BUTTONS,
      LIGHT_ID_BATTERY, LIGHT_ID_NOTIFICATIONS, LIGHT_ID_ATTENTION }

\* names no strcmp of open_lights matches (strcmp is case-sensitive)
UnknownIds == { "bluetooth", "Backlight" }

LIGHT_FLASH_NONE     == "LIGHT_FLASH_NONE"
LIGHT_FLASH_TIMED    == "LIGHT_FLASH_TIMED"
LIGHT_FLASH_HARDWARE == "LIGHT_FLASH_HARDWARE"
\* a flashMode value that is none of the three enumerators
FLASH_OTHER          == "FLASH_OTHER"
FlashModes ==
    { LIGHT_FLASH_NONE, LIGHT_FLASH_TIMED, LIGHT_FLASH_HARDWARE, FLASH_OTHER }

\* the error number open_lights negates for an unknown name
EINVAL == 22
\* error numbers a failing open() or write() leaves in errno (ENOENT, EIO)
ErrnoValues == { 2, 5 }

(***************************************************************************)
(* 32-bit colors.  A color is kept as two limbs, hi = bits 24..31 and      *)
(* lo = bits 0..23, so that the whole unsigned 32-bit range is covered;    *)
(* the bit operations of the code are written on the limbs.                *)
(***************************************************************************)
ARGB(a, r, g, b) == [hi |-> a, lo |-> r * 65536 + g * 256 + b]

\* color & 0x00ffffff
And24(color) == color.lo
\* (x >> n) & 0x00ff for a 24-bit x and n in {0, 8, 16}; bits 24..31 of a
\* color never reach the result
ShrAnd8(x, n) == (x \div (2 ^ n)) % 256
\* x >> 8 for a non-negative int
Shr8(x) == x \div 256
\* the truth value of a whole 32-bit color in a C condition
NonZero(color) == color.hi # 0 \/ color.lo # 0

LightState(c, m, on, off) ==
    [color |-> c, flashMode |-> m, flashOnMS |-> on, flashOffMS |-> off]

(***************************************************************************)
(* write_int's sprintf(buffer, "%d\n", value).                             *)
(***************************************************************************)
Digit == << "0", "1", "2", "3", "4", "5", "6", "7", "8", "9" >>

RECURSIVE itoa(_)
itoa(n) == IF n < 10 THEN Digit[n + 1]
           ELSE itoa(n \div 10) \o Digit[(n % 10) + 1]

sprintf_d(value) ==
    (IF value < 0 THEN "-" \o itoa(0 - value) ELSE itoa(value)) \o "\n"

(***************************************************************************)
(* is_lit and rgb_to_brightness.                                           *)
(***************************************************************************)
is_lit(state) == And24(state.color)

\* rgb_to_brightness with the red and green weights exchanged
rgb_to_brightness_swapped(state) ==
    LET color == And24(state.color)
    IN  Shr8(  150 * ShrAnd8(color, 16)
             + 77 * ShrAnd8(color, 8)
             + 29 * ShrAnd8(color, 0))

rgb_to_brightness(state) ==
    LET color == And24(state.color)
    IN  Shr8(  77 * ShrAnd8(color, 16)
             + 150 * ShrAnd8(color, 8)
             + 29 * ShrAnd8(color, 0))

(***************************************************************************)
(* The set_light implementations.  Each is the straight-line program of    *)
(* its C function: whether it takes g_lock around its writes, and the      *)
(* write_int calls it makes in order; "assign" tells whether the call's    *)
(* result is assigned to err (err = write_int(...)) or dropped.            *)
(***************************************************************************)
W(path, value, assign) == [path |-> path, value |-> value, assign |-> assign]

\* the switch without its case LIGHT_FLASH_HARDWARE label
FlashTimes_timed_only(state) ==
    IF state.flashMode = LIGHT_FLASH_TIMED
    THEN [onMS |-> state.flashOnMS, offMS |-> state.flashOffMS]
    ELSE [onMS |-> 0, offMS |-> 0]

\* the switch on state->flashMode that sets onMS and offMS
FlashTimes(state) ==
    IF state.flashMode \in { LIGHT_FLASH_HARDWARE, LIGHT_FLASH_TIMED }
    THEN [onMS |-> state.flashOnMS, offMS |-> state.flashOffMS]
    ELSE [onMS |-> 0, offMS |-> 0]

set_light_backlight(state) ==
    LET brightness == rgb_to_brightness(state)
    IN  [lock |-> TRUE, writes |-> << W(LCD_FILE, brightness, TRUE) >>]

set_light_keyboard(state) ==
    [lock |-> FALSE, writes |-> << >>]

set_light_buttons(state) ==
    LET on == is_lit(state)
    IN  [lock |-> TRUE,
         writes |-> << W(KEYBOARD_FILE, IF on # 0 THEN 255 ELSE 0, TRUE) >>]

set_light_battery(state) ==
    LET colorRGB == state.color
    IN  [lock |-> FALSE,
         writes |-> << W(CHARGING_LED_FILE,
                         IF NonZero(colorRGB) THEN 255 ELSE 0, TRUE) >>]

\* the body with every write_int result assigned to err
RgbProgram_all_assigned(state) ==
    LET ft       == FlashTimes(state)
        colorRGB == state.color
        blink    == ft.onMS > 0 /\ ft.offMS > 0
        on       == IF blink THEN ft.onMS ELSE 0
        off      == IF blink THEN ft.offMS ELSE 0
    IN  [lock |-> FALSE,
         writes |-> << W(RED_LED_FILE, ShrAnd8(colorRGB.lo, 16), TRUE),
                       W(GREEN_LED_FILE, ShrAnd8(colorRGB.lo, 8), TRUE),
                       W(BLUE_LED_FILE, ShrAnd8(colorRGB.lo, 0), TRUE),
                       W(RED_DELAY_ON_FILE, on, TRUE),
                       W(RED_DELAY_OFF_FILE, off, TRUE),
                       W(GREEN_DELAY_ON_FILE, on, TRUE),
                       W(GREEN_DELAY_OFF_FILE, off, TRUE),
                       W(BLUE_DELAY_ON_FILE, on, TRUE),
                       W(BLUE_DELAY_OFF_FILE, off, TRUE) >>]

\* the body shared, line for line, by set_light_notification and
\* set_light_attention
RgbProgram(state) ==
    LET ft       == FlashTimes(state)
        colorRGB == state.color
        red      == ShrAnd8(colorRGB.lo, 16)
        green    == ShrAnd8(colorRGB.lo, 8)
        blue     == ShrAnd8(colorRGB.lo, 0)
        blink    == ft.onMS > 0 /\ ft.offMS > 0
        on       == IF blink THEN ft.onMS ELSE 0
        off      == IF blink THEN ft.offMS ELSE 0
    IN  [lock |-> FALSE,
         writes |-> << W(RED_LED_FILE, red, TRUE),
                       W(GREEN_LED_FILE, green, TRUE),
                       W(BLUE_LED_FILE, blue, TRUE),
                       W(RED_DELAY_ON_FILE, on, FALSE),
                       W(RED_DELAY_OFF_FILE, off, FALSE),
                       W(GREEN_DELAY_ON_FILE, on, FALSE),
                       W(GREEN_DELAY_OFF_FILE, off, FALSE),
                       W(BLUE_DELAY_ON_FILE, on, FALSE),
                       W(BLUE_DELAY_OFF_FILE, off, FALSE) >>]

set_light_notification(state) == RgbProgram(state)

\* set_light_attention writing onMS to the blue delay_off file
set_light_attention_blue_slip(state) ==
    LET p == RgbProgram(state)
    IN  [p EXCEPT !.writes[9] = W(BLUE_DELAY_OFF_FILE, p.writes[8].value, FALSE)]

set_light_attention(state) == RgbProgram(state)

\* the call dev->set_light(dev, state) through the handle's function pointer
Dispatch(fn, state) ==
    CASE fn = "set_light_backlight"    -> set_light_backlight(state)
      [] fn = "set_light_keyboard"     -> set_light_keyboard(state)
      [] fn = "set_light_buttons"      -> set_light_buttons(state)
      [] fn = "set_light_battery"      -> set_light_battery(state)
      [] fn = "set_light_notification" -> set_light_notification(state)
      [] fn = "set_light_attention"    -> set_light_attention(state)

\* the chain with the last two assignments exchanged
Lookup_swapped(name) ==
    CASE name = LIGHT_ID_BACKLIGHT     -> "set_light_backlight"
      [] name = LIGHT_ID_KEYBOARD      -> "set_light_keyboard"
      [] name = LIGHT_ID_BUTTONS       -> "set_light_buttons"
      [] name = LIGHT_ID_BATTERY       -> "set_light_battery"
      [] name = LIGHT_ID_NOTIFICATIONS -> "set_light_attention"
      [] name = LIGHT_ID_ATTENTION     -> "set_light_notification"
      [] OTHER                         -> "NULL"

\* the strcmp chain of open_lights: the function bound to a name, or "NULL"
\* where the chain ends in return -EINVAL
Lookup(name) ==
    CASE name = LIGHT_ID_BACKLIGHT     -> "set_light_backlight"
      [] name = LIGHT_ID_KEYBOARD      -> "set_light_keyboard"
      [] name = LIGHT_ID_BUTTONS       -> "set_light_buttons"
      [] name = LIGHT_ID_BATTERY       -> "set_light_battery"
      [] name = LIGHT_ID_NOTIFICATIONS -> "set_light_notification"
      [] name = LIGHT_ID_ATTENTION     -> "set_light_attention"
      [] OTHER                         -> "NULL"

(***************************************************************************)
(* State.                                                                  *)
(***************************************************************************)
VARIABLES
    g_init,         \* the pthread_once_t: "INIT", "RUNNING" or "DONE"
    g_lock,         \* the mutex: 0 when unlocked, else the owning thread
    lock_inits,     \* the initialisations g_lock has received, in order
    already_warned, \* write_int's static flag
    files,          \* the text each control file holds
    last_writer,    \* per RGB control file, the thread that wrote it last
    faults,         \* failing system calls so far
    calls,          \* set_light calls so far
    input,          \* per thread, the name and light state it passes
    pc,             \* per thread, its position in the code
    dev,            \* per thread, *device: the set_light bound to its handle
    widx,           \* per thread, which write_int call of the handler is next
    fd,             \* per thread, the path of write_int's open descriptor
    err,            \* per thread, the handler's local err
    ret,            \* per thread, the last call that returned and its value
    trace           \* per thread, the write_int calls of the current call

vars == << g_init, g_lock, lock_inits, already_warned, files, last_writer, faults,
           calls, input, pc, dev, widx, fd, err, ret, trace >>

globals == << g_init, g_lock, lock_inits, already_warned, files, last_writer,
              faults >>

\* the program of the call thread t is in
Prog(t) == Dispatch(dev[t], input[t].state)

CurrentWrite(t) == Prog(t).writes[widx[t]]

Init0 ==
    /\ g_init = "INIT"
    /\ g_lock = 0
    /\ lock_inits = << "PTHREAD_MUTEX_INITIALIZER" >>
    /\ already_warned = 0
    /\ files = [p \in Paths |-> "0\n"]
    /\ last_writer = [p \in RGB_FILES |-> 0]
    /\ faults = 0
    /\ calls = 0
    /\ pc = [t \in Threads |-> "idle"]
    /\ dev = [t \in Threads |-> "NULL"]
    /\ widx = [t \in Threads |-> 0]
    /\ fd = [t \in Threads |-> "none"]
    /\ err = [t \in Threads |-> 0]
    /\ ret = [t \in Threads |-> [op |-> "none", val |-> 0]]
    /\ trace = [t \in Threads |-> << >>]

(***************************************************************************)
(* open_lights and close_lights.                                           *)
(***************************************************************************)
\* the strcmp chain: an unknown name returns -EINVAL at once
open_lights(t) ==
    /\ pc[t] = "idle"
    /\ dev[t] = "NULL"
    /\ IF Lookup(input[t].name) = "NULL"
       THEN /\ ret' = [ret EXCEPT ![t] = [op |-> "open_lights", val |-> 0 - EINVAL]]
            /\ pc' = pc
       ELSE /\ ret' = [ret EXCEPT ![t] = [op |-> "none", val |-> 0]]
            /\ pc' = [pc EXCEPT ![t] = "once"]
    /\ UNCHANGED << globals, calls, input, dev, widx, fd, err, trace >>

\* pthread_once(&g_init, init_globals), first caller: runs init_globals
pthread_once_first(t) ==
    /\ pc[t] = "once"
    /\ g_init = "INIT"
    /\ g_init' = "RUNNING"
    /\ pc' = [pc EXCEPT ![t] = "init_globals"]
    /\ UNCHANGED << g_lock, lock_inits, already_warned, files, last_writer, faults,
                    calls, input, dev, widx, fd, err, ret, trace >>

\* init_globals: pthread_mutex_init(&g_lock, NULL), then the once is done.
\* g_lock is already initialised by its static initialiser; no thread holds
\* it here, and re-initialising it leaves it unlocked.
init_globals(t) ==
    /\ pc[t] = "init_globals"
    /\ g_lock' = 0
    /\ lock_inits' = Append(lock_inits, "pthread_mutex_init")
    /\ g_init' = "DONE"
    /\ pc' = [pc EXCEPT ![t] = "alloc"]
    /\ UNCHANGED << already_warned, files, last_writer, faults,
                    calls, input, dev, widx, fd, err, ret, trace >>

\* pthread_once, later callers: wait while RUNNING, pass when DONE
pthread_once_done(t) ==
    /\ pc[t] = "once"
    /\ g_init = "DONE"
    /\ pc' = [pc EXCEPT ![t] = "alloc"]
    /\ UNCHANGED << globals, calls, input, dev, widx, fd, err, ret, trace >>

\* malloc, memset, dev->set_light = set_light, *device = dev, return 0
open_lights_finish(t) ==
    /\ pc[t] = "alloc"
    /\ dev' = [dev EXCEPT ![t] = Lookup(input[t].name)]
    /\ ret' = [ret EXCEPT ![t] = [op |-> "open_lights", val |-> 0]]
    /\ pc' = [pc EXCEPT ![t] = "ready"]
    /\ UNCHANGED << globals, calls, input, widx, fd, err, trace >>

\* close_lights: frees the handle if there is one, returns 0; the caller
\* drops its pointer
close_lights(t) ==
    /\ pc[t] \in { "ready", "idle" }
    /\ dev' = [dev EXCEPT ![t] = "NULL"]
    /\ ret' = [ret EXCEPT ![t] = [op |-> "close_lights", val |-> 0]]
    /\ trace' = [trace EXCEPT ![t] = << >>]
    /\ pc' = [pc EXCEPT ![t] = "idle"]
    /\ UNCHANGED << globals, calls, input, widx, fd, err >>

(***************************************************************************)
(* A set_light call: entry, the mutex, write_int, return.                  *)
(***************************************************************************)
\* after a mutex-free prologue, where the handler goes first
FirstPc(prog) ==
    IF prog.lock THEN "lock"
    ELSE IF Len(prog.writes) > 0 THEN "open" ELSE "return"

\* where the handler goes after its write_int call number i has returned
NextPc(prog, i) ==
    IF i < Len(prog.writes) THEN "open"
    ELSE IF prog.lock THEN "unlock" ELSE "return"

\* the caller invokes dev->set_light(dev, state); the handler sets err = 0
\* and computes its locals
set_light(t) ==
    /\ pc[t] = "ready"
    /\ calls < MaxCalls
    /\ calls' = calls + 1
    /\ err' = [err EXCEPT ![t] = 0]
    /\ widx' = [widx EXCEPT ![t] = 1]
    /\ trace' = [trace EXCEPT ![t] = << >>]
    /\ ret' = [ret EXCEPT ![t] = [op |-> "none", val |-> 0]]
    /\ pc' = [pc EXCEPT ![t] = FirstPc(Prog(t))]
    /\ UNCHANGED << globals, input, dev, fd >>

\* a lock that does not wait for the owner
pthread_mutex_lock_no_wait(t) ==
    /\ pc[t] = "lock"
    /\ g_lock' = t
    /\ pc' = [pc EXCEPT ![t] = IF Len(Prog(t).writes) > 0 THEN "open" ELSE "unlock"]
    /\ UNCHANGED << g_init, lock_inits, already_warned, files, last_writer, faults,
                    calls, input, dev, widx, fd, err, ret, trace >>

pthread_mutex_lock(t) ==
    /\ pc[t] = "lock"
    /\ g_lock = 0
    /\ g_lock' = t
    /\ pc' = [pc EXCEPT ![t] = IF Len(Prog(t).writes) > 0 THEN "open" ELSE "unlock"]
    /\ UNCHANGED << g_init, lock_inits, already_warned, files, last_writer, faults,
                    calls, input, dev, widx, fd, err, ret, trace >>

pthread_mutex_unlock(t) ==
    /\ pc[t] = "unlock"
    /\ g_lock' = 0
    /\ pc' = [pc EXCEPT ![t] = "return"]
    /\ UNCHANGED << g_init, lock_inits, already_warned, files, last_writer, faults,
                    calls, input, dev, widx, fd, err, ret, trace >>

\* write_int returns r to the handler: err = r where the handler assigns it
WriteIntReturns(t, r) ==
    LET w == CurrentWrite(t)
    IN  /\ err' = [err EXCEPT ![t] = IF w.assign THEN r ELSE @]
        /\ trace' = [trace EXCEPT ![t] =
                        Append(@, [path |-> w.path, value |-> w.value, res |-> r])]
        /\ widx' = [widx EXCEPT ![t] = @ + 1]
        /\ pc' = [pc EXCEPT ![t] = NextPc(Prog(t), widx[t])]

\* fd = open(path, O_RDWR) succeeds
write_int_open(t) ==
    /\ pc[t] = "open"
    /\ fd' = [fd EXCEPT ![t] = CurrentWrite(t).path]
    /\ pc' = [pc EXCEPT ![t] = "write"]
    /\ UNCHANGED << globals, calls, input, dev, widx, err, ret, trace >>

\* open fails: already_warned is set, write_int returns -errno
write_int_open_fail(t) ==
    /\ pc[t] = "open"
    /\ faults < MaxFaults
    /\ faults' = faults + 1
    /\ already_warned' = 1
    /\ \E e \in ErrnoValues : WriteIntReturns(t, 0 - e)
    /\ UNCHANGED << g_init, g_lock, lock_inits, files, last_writer,
                    calls, input, dev, fd, ret >>

\* sprintf, write succeeds, close: write_int returns 0
write_int_write(t) ==
    /\ pc[t] = "write"
    /\ files' = [files EXCEPT ![fd[t]] = sprintf_d(CurrentWrite(t).value)]
    /\ last_writer' = IF fd[t] \in RGB_FILES
                      THEN [last_writer EXCEPT ![fd[t]] = t]
                      ELSE last_writer
    /\ fd' = [fd EXCEPT ![t] = "none"]
    /\ WriteIntReturns(t, 0)
    /\ UNCHANGED << g_init, g_lock, lock_inits, already_warned, faults,
                    calls, input, dev, ret >>

\* write returns -1, close: write_int returns -errno
write_int_write_fail(t) ==
    /\ pc[t] = "write"
    /\ faults < MaxFaults
    /\ faults' = faults + 1
    /\ fd' = [fd EXCEPT ![t] = "none"]
    /\ \E e \in ErrnoValues : WriteIntReturns(t, 0 - e)
    /\ UNCHANGED << g_init, g_lock, lock_inits, already_warned, files, last_writer,
                    calls, input, dev, ret >>

\* return err; the handler's locals die with its frame
set_light_return(t) ==
    /\ pc[t] = "return"
    /\ ret' = [ret EXCEPT ![t] = [op |-> "set_light", val |-> err[t]]]
    /\ err' = [err EXCEPT ![t] = 0]
    /\ widx' = [widx EXCEPT ![t] = 0]
    /\ pc' = [pc EXCEPT ![t] = "ready"]
    /\ UNCHANGED << globals, calls, input, dev, fd, trace >>

\* the steps of open_lights
OpenStep(t) ==
    \/ open_lights(t)
    \/ pthread_once_first(t)
    \/ init_globals(t)
    \/ pthread_once_done(t)
    \/ open_lights_finish(t)

\* the steps of a set_light call whose system calls succeed
CallStep(t) ==
    \/ set_light(t)
    \/ write_int_open(t)
    \/ write_int_write(t)
    \/ set_light_return(t)

\* the mutex operations of set_light_backlight and set_light_buttons
LockStep(t) ==
    \/ pthread_mutex_lock(t)
    \/ pthread_mutex_unlock(t)

\* a failing system call inside write_int
FaultStep(t) ==
    \/ write_int_open_fail(t)
    \/ write_int_write_fail(t)

Step(t) ==
    \/ OpenStep(t)
    \/ CallStep(t)
    \/ LockStep(t)
    \/ FaultStep(t)
    \/ close_lights(t)

(***************************************************************************)
(* Inputs.                                                                 *)
(***************************************************************************)
\* the light state the concurrent callers pass (StateA), and the second
\* request of the callers sharing the RGB LED (StateB)
StateA == LightState(ARGB(0, 17, 34, 51), LIGHT_FLASH_TIMED, 100, 200)
StateB == LightState(ARGB(255, 255, 0, 0), LIGHT_FLASH_HARDWARE, 500, 250)

ConcInputs ==
    [name : { LIGHT_ID_BACKLIGHT, LIGHT_ID_KEYBOARD, LIGHT_ID_BUTTONS,
              LIGHT_ID_BATTERY, "bluetooth" },
     state : { StateA }]

\* the light states of the single caller: colors over sample bytes with a
\* steady light, and the flash settings over two colors
SampleBytes == { 0, 17, 255 }
AlphaBytes == { 0, 255 }
SeqColors ==
    { ARGB(a, r, g, b) : a \in AlphaBytes, r \in SampleBytes,
                         g \in SampleBytes, b \in SampleBytes }
SeqStates ==
    { LightState(c, LIGHT_FLASH_NONE, 0, 0) : c \in SeqColors }
    \cup { LightState(ARGB(a, 17, 34, 51), m, on, off) :
             a \in AlphaBytes, m \in FlashModes,
             on \in { -1, 0, 100 }, off \in { 0, 200 } }

SeqInputs == [name : KnownIds \cup UnknownIds, state : SeqStates]

\* the input of a thread that a specification never runs
IdleInput == [name |-> "bluetooth", state |-> LightState(ARGB(0, 0, 0, 0), LIGHT_FLASH_NONE, 0, 0)]

(***************************************************************************)
(* Specifications.                                                         *)
(***************************************************************************)
\* NumThreads callers running concurrently on the lights with one control
\* file (and an unknown name), with failing system calls
Init == Init0 /\ input \in [Threads -> ConcInputs]

Next == \E t \in Threads : Step(t)

Spec == Init /\ [][Next]_vars

\* one caller, over every light name and the wide set of light states, with
\* failing system calls
InitSeq ==
    /\ Init0
    /\ \E i \in SeqInputs : input = [t \in Threads |-> IF t = 1 THEN i ELSE IdleInput]

NextSeq == Step(1)

SpecSeq == InitSeq /\ [][NextSeq]_vars

\* two callers sharing the RGB LED: thread 1 opens the notification light and
\* thread 2 the attention light, both keep their handle, and every system
\* call of write_int succeeds
InitRGB ==
    /\ Init0
    /\ input = [t \in Threads |->
                  IF t = 1 THEN [name |-> LIGHT_ID_NOTIFICATIONS, state |-> StateA]
                  ELSE IF t = 2 THEN [name |-> LIGHT_ID_ATTENTION, state |-> StateB]
                  ELSE IdleInput]

NextRGB == \E t \in { 1, 2 } : OpenStep(t) \/ CallStep(t)

SpecRGB == InitRGB /\ [][NextRGB]_vars

(***************************************************************************)
(* Vocabulary of the properties.                                           *)
(***************************************************************************)
\* how many times init_globals has run
n_init ==
    Cardinality({ i \in 1..Len(lock_inits) : lock_inits[i] = "pthread_mutex_init" })

\* the threads with an open descriptor on a control file
InFlight == { t \in Threads : fd[t] # "none" }

\* thread t is inside write_int
InWriteInt(t) == pc[t] \in { "open", "write" }

\* thread t's set_light call has returned and nothing of t has run since
Returned(t) == ret[t].op = "set_light"

AllSucceeded(t) == \A i \in 1..Len(trace[t]) : trace[t][i].res = 0

\* the path and value of each write_int call, in order
Written(t) ==
    [i \in 1..Len(trace[t]) |-> << trace[t][i].path, trace[t][i].value >>]

\* the three low bytes of a color
RedOf(state)   == (state.color.lo \div 65536) % 256
GreenOf(state) == (state.color.lo \div 256) % 256
BlueOf(state)  == state.color.lo % 256

\* the request blinks: a flashing mode with both durations positive
Blinks(state) ==
    /\ state.flashMode \in { LIGHT_FLASH_TIMED, LIGHT_FLASH_HARDWARE }
    /\ state.flashOnMS > 0
    /\ state.flashOffMS > 0

\* what a notification or attention request asks each RGB control file to hold
RgbRequest(state, p) ==
    CASE p = RED_LED_FILE   -> RedOf(state)
      [] p = GREEN_LED_FILE -> GreenOf(state)
      [] p = BLUE_LED_FILE  -> BlueOf(state)
      [] p \in { RED_DELAY_ON_FILE, GREEN_DELAY_ON_FILE, BLUE_DELAY_ON_FILE }
            -> IF Blinks(state) THEN state.flashOnMS ELSE 0
      [] p \in { RED_DELAY_OFF_FILE, GREEN_DELAY_OFF_FILE, BLUE_DELAY_OFF_FILE }
            -> IF Blinks(state) THEN state.flashOffMS ELSE 0

\* the order in which the nine RGB control files are written
RgbOrder ==
    << RED_LED_FILE, GREEN_LED_FILE, BLUE_LED_FILE,
       RED_DELAY_ON_FILE, RED_DELAY_OFF_FILE,
       GREEN_DELAY_ON_FILE, GREEN_DELAY_OFF_FILE,
       BLUE_DELAY_ON_FILE, BLUE_DELAY_OFF_FILE >>

RgbHandlers == { "set_light_notification", "set_light_attention" }

\* the light states that differ from state in bits 24..31 of color only
AlphaVariants(state) ==
    { [state EXCEPT !.color = [hi |-> a, lo |-> state.color.lo]] :
        a \in { 0, 1, 128, 255 } }

\* the function the table of light identifiers binds to each name
BoundOperation(name) ==
    CASE name = "backlight"     -> "set_light_backlight"
      [] name = "keyboard"      -> "set_light_keyboard"
      [] name = "buttons"       -> "set_light_buttons"
      [] name = "battery"       -> "set_light_battery"
      [] name = "notifications" -> "set_light_notification"
      [] name = "attention"     -> "set_light_attention"

(***************************************************************************)
(* C1.  At most one write_int open/write/close sequence is in flight: no   *)
(* two threads hold an open descriptor on a control file at the same time, *)
(* whichever handlers they run.  (Stated as claimed; the handlers that     *)
(* skip g_lock violate it.)                                                *)
(***************************************************************************)
C1_AtMostOneWriteInFlight == Cardinality(InFlight) <= 1

C3_EveryFailureSurfaced ==
    \A t \in Threads :
        Returned(t) =>
            /\ (~AllSucceeded(t) => ret[t].val < 0)
            /\ (ret[t].val = 0 => AllSucceeded(t))

(***************************************************************************)
(* C4.  As claimed: the alpha byte never influences what is written.  The  *)
(* paths and values a handler writes for a light state are those it writes *)
(* for every light state that differs only in bits 24..31 of color.        *)
(***************************************************************************)
C4_AlphaIgnored ==
    \A t \in Threads :
        Returned(t) =>
            \A s \in AlphaVariants(input[t].state) :
                LET w == Dispatch(dev[t], s).writes
                IN  Written(t) = [i \in 1..Len(w) |-> << w[i].path, w[i].value >>]

(***************************************************************************)
(* C5.  Backlight and Buttons calls never interleave their writes: at most *)
(* one thread running set_light_backlight or set_light_buttons is inside   *)
(* write_int, and g_lock is held only by a thread between its lock and its *)
(* unlock, so it is free again once a call has finished, whether its write *)
(* succeeded or failed.                                                    *)
(***************************************************************************)
C5_BacklightButtonsSerialized ==
    /\ \A t1, t2 \in Threads :
          /\ t1 # t2
          /\ dev[t1] \in { "set_light_backlight", "set_light_buttons" }
          /\ dev[t2] \in { "set_light_backlight", "set_light_buttons" }
          /\ InWriteInt(t1)
          => ~InWriteInt(t2)
    /\ \A t \in Threads :
          /\ (InWriteInt(t) /\ dev[t] \in { "set_light_backlight", "set_light_buttons" }
                => g_lock = t)
          /\ (g_lock = t => pc[t] \in { "open", "write", "unlock" })
    /\ g_lock \in { 0 } \cup Threads

\* a Backlight call has failed and returned, and a Buttons call that took
\* the mutex after it is writing
C5_Witness ==
    \E t1, t2 \in Threads :
        /\ dev[t1] = "set_light_backlight" /\ Returned(t1) /\ ret[t1].val < 0
        /\ dev[t2] = "set_light_buttons" /\ pc[t2] = "write" /\ g_lock = t2

(***************************************************************************)
(* C6.  open_lights with a known identifier returns 0 and binds the handle *)
(* to that identifier's operation, and the binding stays until close; with *)
(* any other name it returns -EINVAL, leaves *device untouched and never   *)
(* reaches pthread_once.                                                   *)
(***************************************************************************)
C6_OpenBinds ==
    \A t \in Threads :
        IF input[t].name \in KnownIds
        THEN /\ dev[t] \in { "NULL", BoundOperation(input[t].name) }
             /\ (ret[t].op = "open_lights" => ret[t].val = 0 /\ dev[t] # "NULL")
             /\ (pc[t] \in { "ready", "lock", "open", "write", "unlock", "return" }
                   => dev[t] = BoundOperation(input[t].name))
        ELSE /\ dev[t] = "NULL"
             /\ pc[t] = "idle"
             /\ (ret[t].op = "open_lights" => ret[t].val = 0 - EINVAL)
             /\ ((\A u \in Threads : input[u].name \notin KnownIds)
                   => n_init = 0 /\ g_init = "INIT")

\* open_lights has returned 0 for the last name of the chain
C6_Witness ==
    \E t \in Threads :
        /\ input[t].name = "attention"
        /\ ret[t] = [op |-> "open_lights", val |-> 0]
        /\ dev[t] = "set_light_attention"

(***************************************************************************)
(* C7.  A Notification or Attention call whose writes all succeed writes   *)
(* the three low bytes of color to the red, green and blue brightness      *)
(* files, then flashOnMS to the three delay_on files and flashOffMS to the *)
(* three delay_off files if the mode is TIMED or HARDWARE and both         *)
(* durations are positive, and 0 to all six delay files otherwise.         *)
(***************************************************************************)
C7_RgbWrites ==
    \A t \in Threads :
        Returned(t) /\ dev[t] \in RgbHandlers /\ AllSucceeded(t) =>
            /\ Len(trace[t]) = 9
            /\ \A i \in 1..9 :
                  /\ trace[t][i].path = RgbOrder[i]
                  /\ trace[t][i].value = RgbRequest(input[t].state, RgbOrder[i])
            /\ \A p \in RGB_FILES :
                  files[p] = sprintf_d(RgbRequest(input[t].state, p))

\* a HARDWARE flash request with both durations positive has been applied
C7_Witness ==
    \E t \in Threads :
        /\ Returned(t) /\ dev[t] \in RgbHandlers /\ AllSucceeded(t)
        /\ input[t].state.flashMode = LIGHT_FLASH_HARDWARE
        /\ files[RED_LED_FILE] = "17\n"
        /\ files[GREEN_LED_FILE] = "34\n"
        /\ files[BLUE_LED_FILE] = "51\n"
        /\ files[BLUE_DELAY_ON_FILE] = "100\n"
        /\ files[BLUE_DELAY_OFF_FILE] = "200\n"

(***************************************************************************)
(* C8.  A successful Backlight call writes (77*R + 150*G + 29*B) >> 8 to   *)
(* the LCD brightness file, R, G, B being the three low bytes of color;    *)
(* the value is in 0..255, 255 for 0x00FFFFFF and 0 for 0x00000000.        *)
(***************************************************************************)
C8_BacklightLuma ==
    \A t \in Threads :
        Returned(t) /\ dev[t] = "set_light_backlight" /\ ret[t].val = 0 =>
            LET s == input[t].state
                v == (77 * RedOf(s) + 150 * GreenOf(s) + 29 * BlueOf(s)) \div 256
            IN  /\ Written(t) = << << LCD_FILE, v >> >>
                /\ files[LCD_FILE] = sprintf_d(v)
                /\ v \in 0..255
                /\ (s.color.lo = 16777215 => files[LCD_FILE] = "255\n")
                /\ (s.color.lo = 0 => files[LCD_FILE] = "0\n")

\* white with a set alpha byte has been applied to the backlight
C8_Witness ==
    \E t \in Threads :
        /\ Returned(t) /\ dev[t] = "set_light_backlight" /\ ret[t].val = 0
        /\ input[t].state.color = [hi |-> 255, lo |-> 16777215]
        /\ files[LCD_FILE] = "255\n"

(***************************************************************************)
(* C9.  As claimed: across concurrent open_lights calls the mutex is       *)
(* initialised exactly once.  init_globals runs at most once, and exactly  *)
(* once as soon as a call naming a known identifier has passed             *)
(* pthread_once; it has completed before any handle exists, hence before   *)
(* any set_light call touches the mutex; and once it has run, its          *)
(* pthread_mutex_init is the only initialisation g_lock has received.      *)
(***************************************************************************)
C9_InitialisedOnce ==
    /\ n_init <= 1
    /\ (n_init = 1) = (g_init = "DONE")
    /\ \A t \in Threads :
          /\ (dev[t] # "NULL" \/ pc[t] = "alloc" => n_init = 1)
          /\ (pc[t] \in { "lock", "open", "write", "unlock", "return" } => n_init = 1)
          /\ (pc[t] = "init_globals" => g_init = "RUNNING" /\ n_init = 0)
    /\ Cardinality({ t \in Threads : pc[t] = "init_globals" }) <= 1
    /\ ((\A t \in Threads : input[t].name \notin KnownIds) => n_init = 0)
    /\ (g_init = "DONE" => lock_inits = << "pthread_mutex_init" >>)

(***************************************************************************)
(* C9, the one-shot guard alone: the claim without its last clause.        *)
(***************************************************************************)
C9_OnceGuard ==
    /\ n_init <= 1
    /\ (n_init = 1) = (g_init = "DONE")
    /\ \A t \in Threads :
          /\ (dev[t] # "NULL" \/ pc[t] = "alloc" => n_init = 1)
          /\ (pc[t] \in { "lock", "open", "write", "unlock", "return" } => n_init = 1)
          /\ (pc[t] = "init_globals" => g_init = "RUNNING" /\ n_init = 0)
    /\ Cardinality({ t \in Threads : pc[t] = "init_globals" }) <= 1
    /\ ((\A t \in Threads : input[t].name \notin KnownIds) => n_init = 0)

(***************************************************************************)
(* C10.  Notification and Attention calls are not arbitrated: each RGB     *)
(* control file holds the value asked for by the call that wrote it last   *)
(* (or its initial text if none has), and the calls can interleave so that *)
(* after both have returned the nine files mix the two requests.           *)
(***************************************************************************)
C10_LastWriteWins ==
    \A p \in RGB_FILES :
        files[p] = IF last_writer[p] = 0 THEN "0\n"
                   ELSE sprintf_d(RgbRequest(input[last_writer[p]].state, p))

\* both calls have returned and the files hold part of each request, which
\* neither order of the two calls run one after the other leaves behind
C10_Witness ==
    /\ Returned(1) /\ dev[1] = "set_light_notification" /\ AllSucceeded(1)
    /\ Returned(2) /\ dev[2] = "set_light_attention" /\ AllSucceeded(2)
    /\ \E p \in RGB_FILES : files[p] # sprintf_d(RgbRequest(input[1].state, p))
    /\ \E p \in RGB_FILES : files[p] # sprintf_d(RgbRequest(input[2].state, p))
    /\ \A p \in RGB_FILES :
          files[p] \in { sprintf_d(RgbRequest(input[1].state, p)),
                         sprintf_d(RgbRequest(input[2].state, p)) }

====
